---- MODULE Spec2Model ----
(***************************************************************************)
(* The task list of src/utils.rs (Entry, List, the JSON store) and the     *)
(* command loop of src/main.rs, as a state machine.                        *)
(*                                                                         *)
(* A String is the sequence of its characters.  A NaiveDateTime is an      *)
(* integer, the days since 1970-01-01 00:00:00.  Every Local::now() of the *)
(* code is a separate, unconstrained reading of the local clock: local     *)
(* time can be set back, so readings need not grow.                        *)
(***************************************************************************)
EXTENDS Integers, Sequences, FiniteSets

VARIABLES
    entries,     \* List.entries: the Vec<Entry>
    id_tracker,  \* List.id_tracker: the id cursor
    file,        \* the JSON file at the store's path
    pc,          \* "start": no list yet; "loop": a list is live (main is in
                 \* its loop); "done": the list was exported (main returned);
                 \* "panicked": the thread panicked
    last         \* the most recent call: its name, arguments and return value

vars == <<entries, id_tracker, file, pc, last>>

----------------------------------------------------------------------------
(* Bounds of the model *)

\* the model adds tasks while the list is shorter than this
MaxEntries == 2

\* in SpecBulk the list grows up to this length
BulkMax == 257

\* the numbers in the texts that are parsed have at most this many digits
MaxDigits == 9

\* the instants the local clock is read at
Times == {0, 1}

----------------------------------------------------------------------------
(* enum Status: the variants by discriminant *)

Done == 0

Todo == 1

Overdue == 2

Statuses == {Done, Todo, Overdue}

\* Option<NaiveDateTime>
None == <<>>

Some(d) == <<d>>

\* what the callers of add_task pass: a name and a deadline (an empty name,
\* no deadline, a deadline that instant 1 is past and instant 0 is not)
TaskInputs == {<<<<>>, None>>, <<<<"a">>, None>>, <<<<"a">>, Some(0)>>}

\* the largest value of a u8, the type of the counts of get_status
U8Max == 255

----------------------------------------------------------------------------
(* Entry *)

\* Entry::new; now is the reading of Local::now()
Entry_new(id, name, deadline, now) ==
    [id |-> id, task |-> name, status |-> Todo, timestamp |-> now,
     deadline |-> deadline]

\* is_overdue with the arm _ => true
is_overdue_absent_is_past(e, now) ==
    IF e.deadline # None THEN e.deadline[1] < now ELSE TRUE

\* is_overdue with d <= curr_time
is_overdue_not_after(e, now) ==
    IF e.deadline # None THEN e.deadline[1] <= now ELSE FALSE

\* Entry::is_overdue; now is the reading of Local::now()
is_overdue(e, now) ==
    IF e.deadline # None THEN e.deadline[1] < now ELSE FALSE

----------------------------------------------------------------------------
(* List: the pure part of each method *)

get_size(es) == Len(es)

\* close_index without the test entry.id == id: the first entry not Done
close_index_any_id(es, id) ==
    LET hits == {i \in 1 .. get_size(es) : es[i].status # Done}
    IN  IF hits = {} THEN 0 ELSE CHOOSE i \in hits : \A j \in hits : i <= j

\* close_index with the test status == Todo in place of status != Done
close_index_todo_only(es, id) ==
    LET hits == {i \in 1 .. get_size(es) : es[i].id = id /\ es[i].status = Todo}
    IN  IF hits = {} THEN 0 ELSE CHOOSE i \in hits : \A j \in hits : i <= j

\* the index of the entry close_task closes: the first one with this id
\* that is not Done; 0 when the loop finds none
close_index(es, id) ==
    LET hits == {i \in 1 .. get_size(es) : es[i].id = id /\ es[i].status # Done}
    IN  IF hits = {} THEN 0 ELSE CHOOSE i \in hits : \A j \in hits : i <= j

\* check_overdues that moves an entry already Overdue on to Done
sweep_escalates(es, nows) ==
    [i \in 1 .. get_size(es) |->
        IF is_overdue(es[i], nows[i])
        THEN [es[i] EXCEPT !.status = IF es[i].status = Overdue THEN Done
                                      ELSE Overdue]
        ELSE es[i]]

\* check_overdues that sets the status back to Todo when the deadline is
\* not past
sweep_recomputes(es, nows) ==
    [i \in 1 .. get_size(es) |->
        IF is_overdue(es[i], nows[i])
        THEN [es[i] EXCEPT !.status = Overdue]
        ELSE IF es[i].status = Overdue
        THEN [es[i] EXCEPT !.status = Todo]
        ELSE es[i]]

\* the entries after check_overdues; nows[i] is the clock reading of the
\* is_overdue call on entry i
sweep(es, nows) ==
    [i \in 1 .. get_size(es) |->
        IF is_overdue(es[i], nows[i])
        THEN [es[i] EXCEPT !.status = Overdue]
        ELSE es[i]]

\* a count of get_status after n times val + 1 from 0, in a u8: wrap tells
\* a build without overflow checks, where the count wraps around; the
\* result -1 stands for the panic of a build with them
u8_count(n, wrap) ==
    IF n <= U8Max THEN n
    ELSE IF wrap THEN n % (U8Max + 1) ELSE -1

ZeroCounts == [s \in Statuses |-> 0]

\* the map get_status builds: for each status, one val + 1 per entry in it
tally(es, wrap) ==
    [s \in Statuses |->
        u8_count(Cardinality({i \in 1 .. get_size(es) : es[i].status = s}), wrap)]

----------------------------------------------------------------------------
(* The JSON text of a list, as serde_json writes and reads it *)

\* the variant names serde writes for Status
StatusName(s) ==
    CASE s = Done -> "Done"
      [] s = Todo -> "Todo"
      [] s = Overdue -> "Overdue"

\* NaiveDateTime as a JSON string
DateTimeJson(t) == <<"datetime", t>>

\* Option<NaiveDateTime>: null or the string
OptionJson(o) == IF o = None THEN <<"null">> ELSE DateTimeJson(o[1])

\* EntryJson with the deadline skipped
EntryJson_skip_deadline(e) ==
    [id |-> e.id, task |-> e.task, status |-> StatusName(e.status),
     timestamp |-> DateTimeJson(e.timestamp), deadline |-> <<"null">>]

EntryJson(e) ==
    [id |-> e.id, task |-> e.task, status |-> StatusName(e.status),
     timestamp |-> DateTimeJson(e.timestamp), deadline |-> OptionJson(e.deadline)]

\* serde_json::to_string(&list)
to_string(es, cursor) ==
    [entries |-> [i \in 1 .. Len(es) |-> EntryJson(es[i])],
     id_tracker |-> cursor]

\* a text that is not the JSON of a List
Garbage == [entries |-> <<>>]

StatusNames == {StatusName(s) : s \in Statuses}

IsDateTimeJson(j) == Len(j) = 2 /\ j[1] = "datetime"

EntryJsonOk(j) ==
    /\ DOMAIN j = {"id", "task", "status", "timestamp", "deadline"}
    /\ j.status \in StatusNames
    /\ IsDateTimeJson(j.timestamp)
    /\ (j.deadline = <<"null">> \/ IsDateTimeJson(j.deadline))

\* whether serde_json::from_reader yields a List
from_reader_ok(text) ==
    /\ DOMAIN text = {"entries", "id_tracker"}
    /\ \A i \in 1 .. Len(text.entries) : EntryJsonOk(text.entries[i])

EntryOfJson(j) ==
    [id |-> j.id, task |-> j.task,
     status |-> CHOOSE s \in Statuses : StatusName(s) = j.status,
     timestamp |-> j.timestamp[2],
     deadline |-> IF j.deadline = <<"null">> THEN None ELSE Some(j.deadline[2])]

\* from_reader of a List whose id_tracker is not read (serde(skip)): the
\* cursor is its default
from_reader_skips_cursor(text) ==
    [entries |-> [i \in 1 .. Len(text.entries) |-> EntryOfJson(text.entries[i])],
     id_tracker |-> 0]

\* the List serde_json::from_reader yields
from_reader(text) ==
    [entries |-> [i \in 1 .. Len(text.entries) |-> EntryOfJson(text.entries[i])],
     id_tracker |-> text.id_tracker]

----------------------------------------------------------------------------
(* Strings: the methods of str the code calls *)

\* char::is_whitespace, on the characters of the model's texts
IsWhitespace(c) == c \in {" ", "\t", "\n", "\r"}

Digits == <<"0", "1", "2", "3", "4", "5", "6", "7", "8", "9">>

IsDigit(c) == \E k \in 1 .. 10 : Digits[k] = c

DigitValue(c) == (CHOOSE k \in 1 .. 10 : Digits[k] = c) - 1

\* s[from ..]
Tail_from(s, from) == SubSeq(s, from, Len(s))

\* str::trim_start
trim_start(s) ==
    LET keep == {k \in 1 .. Len(s) : ~IsWhitespace(s[k])}
    IN  IF keep = {} THEN <<>>
        ELSE Tail_from(s, CHOOSE k \in keep : \A j \in keep : k <= j)

\* str::trim
trim(s) ==
    LET keep == {k \in 1 .. Len(s) : ~IsWhitespace(s[k])}
    IN  IF keep = {} THEN <<>>
        ELSE SubSeq(s, CHOOSE k \in keep : \A j \in keep : k <= j,
                       CHOOSE k \in keep : \A j \in keep : k >= j)

\* s.split_whitespace().next().unwrap_or("")
first_word(s) ==
    LET t == trim_start(s)
        stops == {k \in 1 .. Len(t) : IsWhitespace(t[k])}
    IN  IF stops = {} THEN t
        ELSE SubSeq(t, 1, (CHOOSE k \in stops : \A j \in stops : k <= j) - 1)

\* s.strip_prefix(prefix).unwrap_or("")
strip_prefix(s, prefix) ==
    IF Len(prefix) <= Len(s) /\ SubSeq(s, 1, Len(prefix)) = prefix
    THEN Tail_from(s, Len(prefix) + 1)
    ELSE <<>>

\* s.split("-"): the parts between the hyphens, at least one
RECURSIVE split(_)
split(s) ==
    LET cuts == {k \in 1 .. Len(s) : s[k] = "-"}
    IN  IF cuts = {} THEN <<s>>
        ELSE LET k == CHOOSE c \in cuts : \A j \in cuts : c <= j
             IN  <<SubSeq(s, 1, k - 1)>> \o split(Tail_from(s, k + 1))

RECURSIVE digits_value(_)
digits_value(s) ==
    IF s = <<>> THEN 0
    ELSE 10 * digits_value(SubSeq(s, 1, Len(s) - 1)) + DigitValue(s[Len(s)])

AllDigits(s) == s # <<>> /\ \A k \in 1 .. Len(s) : IsDigit(s[k])

\* str::parse::<i32>().ok(): a sign or none, then digits; None on anything
\* else.  The numbers of the model's texts have at most MaxDigits digits,
\* so none is out of the range of an i32
parse_i32(s) ==
    LET signed == s # <<>> /\ s[1] \in {"+", "-"}
        body == IF signed THEN Tail(s) ELSE s
    IN  IF ~AllDigits(body) \/ Len(body) > MaxDigits THEN None
        ELSE IF signed /\ s[1] = "-" THEN Some(0 - digits_value(body))
        ELSE Some(digits_value(body))

\* str::parse::<u32>().ok(): a plus sign or none, then digits
parse_u32(s) ==
    LET signed == s # <<>> /\ s[1] = "+"
        body == IF signed THEN Tail(s) ELSE s
    IN  IF ~AllDigits(body) \/ Len(body) > MaxDigits THEN None
        ELSE Some(digits_value(body))

----------------------------------------------------------------------------
(* Dates *)

IsLeapYear(y) == y % 4 = 0 /\ (y % 100 # 0 \/ y % 400 = 0)

DaysInMonth(y, m) ==
    IF m = 2 THEN (IF IsLeapYear(y) THEN 29 ELSE 28)
    ELSE IF m \in {4, 6, 9, 11} THEN 30 ELSE 31

\* whether year, month and day name a date of the calendar
ValidDate(y, m, d) == m \in 1 .. 12 /\ d \in 1 .. DaysInMonth(y, m)

\* the days from 1970-01-01 to the date
DaysFromEpoch(y, m, d) ==
    LET yy == IF m <= 2 THEN y - 1 ELSE y
        era == yy \div 400
        yoe == yy - era * 400
        mp == IF m > 2 THEN m - 3 ELSE m + 9
        doy == (153 * mp + 2) \div 5 + d - 1
        doe == yoe * 365 + yoe \div 4 - yoe \div 100 + doy
    IN  era * 146097 + doe - 719468

\* what the time zone makes of a local midnight: it is one instant, or it
\* falls in a gap or in a fold of a clock change
LocalResults == {"Single", "None", "Ambiguous"}

\* Local.with_ymd_and_hms(year, month, day, 0, 0, 0).single(), then
\* naive_local(); zone is what the time zone makes of that midnight
with_ymd_and_hms_single(y, m, d, zone) ==
    IF ValidDate(y, m, d) /\ zone = "Single"
    THEN Some(DaysFromEpoch(y, m, d))
    ELSE None

\* parse_deadline
parse_deadline(deadline_raw, zone) ==
    LET raw == IF deadline_raw # <<>> /\ deadline_raw[Len(deadline_raw)] = "\n"
               THEN SubSeq(deadline_raw, 1, Len(deadline_raw) - 1)
               ELSE deadline_raw
        parts == split(raw)
    IN  IF Len(parts) # 3 THEN None
        ELSE LET year == parse_i32(parts[1])
                 month == parse_u32(parts[2])
                 day == parse_u32(parts[3])
             IN  IF year = None \/ month = None \/ day = None THEN None
                 ELSE with_ymd_and_hms_single(year[1], month[1], day[1], zone)

----------------------------------------------------------------------------
(* The calls *)

\* the location FILENAME: absent, or present with content that File::open
\* can or cannot open
NoFile == [exists |-> FALSE, readable |-> TRUE, text |-> Garbage]

\* a file whose content is not the JSON of a List
CorruptFile == [exists |-> TRUE, readable |-> TRUE, text |-> Garbage]

\* a file File::open fails on
UnreadableFile == [exists |-> TRUE, readable |-> FALSE, text |-> Garbage]

\* the record of a call: its name, its id argument, whether it returned
\* without Err or panic, the counts it returned, the value it worked on
\* (an Option) and the value it returned (an Option)
CallOn(op, id, ok, counts, on, ret) ==
    [op |-> op, id |-> id, ok |-> ok, counts |-> counts, on |-> on, ret |-> ret]

Call(op, id, ok, counts) == CallOn(op, id, ok, counts, None, None)

NoCall == Call("none", 0, TRUE, ZeroCounts)

\* List::new
List_new ==
    /\ entries' = <<>>
    /\ id_tracker' = 0

\* open_file with unwrap_or_default in place of the unwraps
open_file_or_empty ==
    IF file.readable /\ from_reader_ok(file.text)
    THEN /\ entries' = from_reader(file.text).entries
         /\ id_tracker' = from_reader(file.text).id_tracker
         /\ pc' = "loop"
    ELSE /\ List_new
         /\ pc' = "loop"

\* open_file: both unwraps
open_file ==
    IF file.readable /\ from_reader_ok(file.text)
    THEN /\ entries' = from_reader(file.text).entries
         /\ id_tracker' = from_reader(file.text).id_tracker
         /\ pc' = "loop"
    ELSE /\ pc' = "panicked"
         /\ UNCHANGED <<entries, id_tracker>>

\* read_or_create
read_or_create ==
    /\ pc # "loop"
    /\ IF file.exists THEN open_file
       ELSE List_new /\ pc' = "loop"
    /\ last' = Call("read_or_create", 0, pc' = "loop", ZeroCounts)
    /\ UNCHANGED file

\* export: the list is moved into the call
export ==
    /\ pc = "loop"
    /\ file' = [exists |-> TRUE, readable |-> TRUE,
                text |-> to_string(entries, id_tracker)]
    /\ pc' = "done"
    /\ last' = Call("export", 0, TRUE, ZeroCounts)
    /\ UNCHANGED <<entries, id_tracker>>

\* add_task without inc_cursor
add_task_keeps_cursor(task, deadline, now) ==
    /\ pc = "loop"
    /\ entries' = Append(entries, Entry_new(id_tracker, task, deadline, now))
    /\ last' = Call("add_task", 0, TRUE, ZeroCounts)
    /\ UNCHANGED <<id_tracker, file, pc>>

\* List::add_task
add_task(task, deadline, now) ==
    /\ pc = "loop"
    /\ entries' = Append(entries, Entry_new(id_tracker, task, deadline, now))
    /\ id_tracker' = id_tracker + 1
    /\ last' = Call("add_task", 0, TRUE, ZeroCounts)
    /\ UNCHANGED <<file, pc>>

\* close_task without the return in the loop: it closes the task and falls
\* through to the error
close_task_falls_through(id) ==
    /\ pc = "loop"
    /\ LET i == close_index(entries, id)
       IN  /\ entries' = IF i = 0 THEN entries
                         ELSE [entries EXCEPT ![i].status = Done]
           /\ last' = Call("close_task", id, FALSE, ZeroCounts)
    /\ UNCHANGED <<id_tracker, file, pc>>

\* close_task closing the entry at position id when no open entry has the id
close_task_by_position(id) ==
    /\ pc = "loop"
    /\ LET i == close_index(entries, id)
           k == IF i # 0 THEN i
                ELSE IF id + 1 \in 1 .. Len(entries) THEN id + 1
                ELSE IF Len(entries) > 0 THEN 1 ELSE 0
       IN  /\ entries' = IF k = 0 THEN entries
                         ELSE [entries EXCEPT ![k].status = Done]
           /\ last' = Call("close_task", id, k # 0, ZeroCounts)
    /\ UNCHANGED <<id_tracker, file, pc>>

\* the body of List::close_task: Ok(()) from the loop, or the Err after it;
\* the call works on the entry the loop stops at, recorded by its status
close_task_body(id) ==
    LET i == close_index(entries, id)
    IN  /\ entries' = IF i = 0 THEN entries
                      ELSE [entries EXCEPT ![i].status = Done]
        /\ last' = CallOn("close_task", id, i # 0, ZeroCounts,
                          IF i = 0 THEN None ELSE Some(entries[i].status), None)

\* close_task that hands the id of the closed task back to the cursor
close_task_frees_id(id) ==
    /\ pc = "loop"
    /\ close_task_body(id)
    /\ id_tracker' = IF close_index(entries, id) # 0 THEN id_tracker - 1
                     ELSE id_tracker
    /\ UNCHANGED <<file, pc>>

\* List::close_task
close_task(id) ==
    /\ pc = "loop"
    /\ close_task_body(id)
    /\ UNCHANGED <<id_tracker, file, pc>>

\* List::check_overdues
check_overdues(nows) ==
    /\ pc = "loop"
    /\ entries' = sweep(entries, nows)
    /\ last' = Call("check_overdues", 0, TRUE, ZeroCounts)
    /\ UNCHANGED <<id_tracker, file, pc>>

\* List::get_status
get_status(wrap) ==
    /\ pc = "loop"
    /\ LET counts == tally(entries, wrap)
           ok == \A s \in Statuses : counts[s] >= 0
       IN  /\ last' = Call("get_status", 0, ok, counts)
           /\ pc' = IF ok THEN pc ELSE "panicked"
    /\ UNCHANGED <<entries, id_tracker, file>>

----------------------------------------------------------------------------
(* Spec: a caller of the library, any call in any order *)

Init ==
    /\ entries = <<>>
    /\ id_tracker = 0
    /\ file \in {NoFile, CorruptFile, UnreadableFile}
    /\ pc = "start"
    /\ last = NoCall

\* the ids a caller closes: one below the ids, the ids, the cursor itself
CloseIds == -1 .. MaxEntries

AddTask ==
    \E in \in TaskInputs, now \in Times :
        /\ Len(entries) < MaxEntries
        /\ add_task(in[1], in[2], now)

CloseTask == \E id \in CloseIds : close_task(id)

CheckOverdues == \E nows \in [1 .. Len(entries) -> Times] : check_overdues(nows)

GetStatus == \E wrap \in BOOLEAN : get_status(wrap)

Next ==
    \/ read_or_create
    \/ export
    \/ AddTask
    \/ CloseTask
    \/ CheckOverdues
    \/ GetStatus

Spec == Init /\ [][Next]_vars

----------------------------------------------------------------------------
(* SpecMain: the program, main of src/main.rs.  read_or_create is its first *)
(* statement; one step of the loop reads a line and runs the arm of the     *)
(* match for its first word; a new run may start once a run has ended.      *)

\* the lines read from stdin
Lines ==
    { <<"a", "d", "d", " ", "a", "\n">>,
      <<"a", "d", "d", "\n">>,
      <<"l", "i", "s", "t", "\n">>,
      <<"c", "l", "o", "s", "e", " ", "0", "\n">>,
      <<"c", "l", "o", "s", "e", " ", "1", "\n">>,
      <<"c", "l", "o", "s", "e", " ", "x", "\n">>,
      <<"h", "e", "l", "p", "\n">>,
      <<"r", "e", "m", "o", "v", "e", " ", "0", "\n">>,
      <<"q", "u", "i", "t", "\n">>,
      <<"\n">>,
      <<"u", "n", "d", "o", "\n">> }

\* the lines read as the answer to "Add deadline?"
DeadlineLines ==
    { <<"\n">>,
      <<"1", "9", "7", "0", "-", "0", "1", "-", "0", "1", "\n">> }

Arms ==
    { <<"a", "d", "d">>, <<"h", "e", "l", "p">>, <<"l", "i", "s", "t">>,
      <<"c", "l", "o", "s", "e">>, <<"r", "e", "m", "o", "v", "e">>,
      <<"q", "u", "i", "t">>, <<>> }

\* the rest of the line after its first word, as the add and close arms take it
rest_of(input) == trim_start(strip_prefix(input, first_word(input)))

\* "add"
main_add(input, deadline_resp, zone, now) ==
    /\ pc = "loop"
    /\ first_word(input) = <<"a", "d", "d">>
    /\ add_task(rest_of(input), parse_deadline(deadline_resp, zone), now)

\* "help"
main_help(input) ==
    /\ pc = "loop"
    /\ first_word(input) = <<"h", "e", "l", "p">>
    /\ last' = Call("show_help", 0, TRUE, ZeroCounts)
    /\ UNCHANGED <<entries, id_tracker, file, pc>>

\* "list": check_overdues, then list_tasks prints the entries
main_list(input, nows) ==
    /\ pc = "loop"
    /\ first_word(input) = <<"l", "i", "s", "t">>
    /\ check_overdues(nows)

\* "close": both unwraps
main_close(input) ==
    /\ pc = "loop"
    /\ first_word(input) = <<"c", "l", "o", "s", "e">>
    /\ LET task_id == parse_i32(trim(rest_of(input)))
       IN  IF task_id = None
           THEN /\ pc' = "panicked"
                /\ last' = Call("parse", 0, FALSE, ZeroCounts)
                /\ UNCHANGED entries
           ELSE /\ close_task_body(task_id[1])
                /\ pc' = IF last'.ok THEN "loop" ELSE "panicked"
    /\ UNCHANGED <<id_tracker, file>>

\* "remove"
main_remove(input) ==
    /\ pc = "loop"
    /\ first_word(input) = <<"r", "e", "m", "o", "v", "e">>
    /\ last' = Call("println", 0, TRUE, ZeroCounts)
    /\ UNCHANGED <<entries, id_tracker, file, pc>>

\* "quit": break, then export
main_quit(input) ==
    /\ first_word(input) = <<"q", "u", "i", "t">>
    /\ export

\* "": nothing
main_blank(input) ==
    /\ pc = "loop"
    /\ first_word(input) = <<>>
    /\ UNCHANGED vars

\* any other word
main_unknown(input) ==
    /\ pc = "loop"
    /\ first_word(input) \notin Arms
    /\ last' = Call("println", 0, TRUE, ZeroCounts)
    /\ UNCHANGED <<entries, id_tracker, file, pc>>

MainAdd ==
    \E input \in Lines, deadline_resp \in DeadlineLines,
       zone \in LocalResults, now \in Times :
        /\ Len(entries) < MaxEntries
        /\ main_add(input, deadline_resp, zone, now)

MainHelp == \E input \in Lines : main_help(input)

MainList ==
    \E input \in Lines, nows \in [1 .. Len(entries) -> Times] :
        main_list(input, nows)

MainClose == \E input \in Lines : main_close(input)

MainRemove == \E input \in Lines : main_remove(input)

MainQuit == \E input \in Lines : main_quit(input)

MainBlank == \E input \in Lines : main_blank(input)

MainUnknown == \E input \in Lines : main_unknown(input)

NextMain ==
    \/ read_or_create
    \/ MainAdd
    \/ MainHelp
    \/ MainList
    \/ MainClose
    \/ MainRemove
    \/ MainQuit
    \/ MainBlank
    \/ MainUnknown

SpecMain == Init /\ [][NextMain]_vars

----------------------------------------------------------------------------
(* SpecBulk: one caller that adds the same task over and over and asks for *)
(* the counts, up to lists longer than a u8 counts                         *)

InitBulk ==
    /\ entries = <<>>
    /\ id_tracker = 0
    /\ file = NoFile
    /\ pc = "loop"
    /\ last = NoCall

AddTaskBulk ==
    /\ Len(entries) < BulkMax
    /\ add_task(<<"a">>, None, 0)

NextBulk ==
    \/ AddTaskBulk
    \/ GetStatus

SpecBulk == InitBulk /\ [][NextBulk]_vars

----------------------------------------------------------------------------
(* SpecOverdue: Entry::is_overdue called on one entry, as the tests          *)
(* overdue_true, overdue_missing and not_overdue do: the entry has any       *)
(* status, no deadline or a deadline before, at or after the clock reading   *)

ClockReadings == {0, 1, 2}

OverdueEntries ==
    { [Entry_new(0, <<"a">>, deadline, created) EXCEPT !.status = status] :
        deadline \in {None} \cup {Some(d) : d \in ClockReadings},
        created \in ClockReadings,
        status \in Statuses }

InitOverdue ==
    /\ entries \in {<<e>> : e \in OverdueEntries}
    /\ id_tracker = 1
    /\ file = NoFile
    /\ pc = "loop"
    /\ last = NoCall

\* a call of is_overdue on entry i (&self: the entry is not written) that
\* reads now from the clock
is_overdue_call(i, now) ==
    /\ pc = "loop"
    /\ i \in 1 .. Len(entries)
    /\ last' = CallOn("is_overdue", entries[i].id, TRUE, ZeroCounts,
                      Some(now), Some(is_overdue(entries[i], now)))
    /\ UNCHANGED <<entries, id_tracker, file, pc>>

IsOverdue == \E now \in ClockReadings : is_overdue_call(1, now)

NextOverdue == IsOverdue

SpecOverdue == InitOverdue /\ [][NextOverdue]_vars

----------------------------------------------------------------------------
(* SpecParse: parse_deadline called on texts, as the tests parse_pass,       *)
(* parse_fail_not_date and parse_fail_empty do.  A text of the form          *)
(* year-month-day is put together from the tables below; value is the        *)
(* number a component text stands for, None when it stands for none          *)

YearTexts ==
    { [text |-> <<"2", "0", "2", "4">>, value |-> Some(2024)],
      [text |-> <<"2", "0", "2", "3">>, value |-> Some(2023)],
      [text |-> <<"1", "9", "7", "0">>, value |-> Some(1970)],
      [text |-> <<"+", "1">>, value |-> Some(1)],
      [text |-> <<"-", "1">>, value |-> Some(-1)],
      [text |-> <<"x">>, value |-> None],
      [text |-> <<>>, value |-> None] }

MonthTexts ==
    { [text |-> <<"0", "1">>, value |-> Some(1)],
      [text |-> <<"1">>, value |-> Some(1)],
      [text |-> <<"0", "2">>, value |-> Some(2)],
      [text |-> <<"1", "2">>, value |-> Some(12)],
      [text |-> <<"1", "3">>, value |-> Some(13)],
      [text |-> <<"0">>, value |-> Some(0)],
      [text |-> <<"x">>, value |-> None],
      [text |-> <<>>, value |-> None] }

DayTexts ==
    { [text |-> <<"0", "1">>, value |-> Some(1)],
      [text |-> <<"2", "9">>, value |-> Some(29)],
      [text |-> <<"3", "0">>, value |-> Some(30)],
      [text |-> <<"3", "1">>, value |-> Some(31)],
      [text |-> <<"3", "2">>, value |-> Some(32)],
      [text |-> <<"0">>, value |-> Some(0)],
      [text |-> <<"0", "1", "1", "2", "3", "2">>, value |-> Some(11232)],
      [text |-> <<"x">>, value |-> None] }

\* what follows the date in the line: nothing, one line feed, two
Terminators == { <<>>, <<"\n">>, <<"\n", "\n">> }

\* texts with fewer or more than three components
OtherTexts ==
    { <<>>,
      <<"\n">>,
      <<"2", "0", "2", "4">>,
      <<"2", "0", "2", "4", "-", "0", "1">>,
      <<"2", "0", "2", "4", "-", "0", "1", "-", "0", "1", "-", "0", "1">> }

\* each text with the date it names: midnight of the day when the year is
\* an integer, the month and the day name a date of the calendar and at
\* most one line feed follows; None otherwise
DateCases ==
    { [text |-> y.text \o <<"-">> \o m.text \o <<"-">> \o d.text \o t,
       date |-> IF /\ y.value # None
                   /\ m.value # None
                   /\ d.value # None
                   /\ Len(t) <= 1
                   /\ ValidDate(y.value[1], m.value[1], d.value[1])
                THEN Some(DaysFromEpoch(y.value[1], m.value[1], d.value[1]))
                ELSE None] :
        y \in YearTexts, m \in MonthTexts, d \in DayTexts, t \in Terminators }
    \cup { [text |-> o, date |-> None] : o \in OtherTexts }

ParseTexts == {c.text : c \in DateCases}

\* the date a text names
DateOf(text) == (CHOOSE c \in DateCases : c.text = text).date

InitParse ==
    /\ entries = <<>>
    /\ id_tracker = 0
    /\ file = NoFile
    /\ pc = "loop"
    /\ last = NoCall

\* a call of parse_deadline in a time zone that makes zone of the midnight
parse_deadline_call(deadline_raw, zone) ==
    /\ pc = "loop"
    /\ last' = CallOn("parse_deadline", 0, TRUE, ZeroCounts,
                      Some(deadline_raw), Some(parse_deadline(deadline_raw, zone)))
    /\ UNCHANGED <<entries, id_tracker, file, pc>>

ParseDeadline ==
    \E deadline_raw \in ParseTexts, zone \in LocalResults :
        parse_deadline_call(deadline_raw, zone)

NextParse == ParseDeadline

SpecParse == InitParse /\ [][NextParse]_vars

----------------------------------------------------------------------------
(* Helpers of the properties *)

Indices(es) == 1 .. Len(es)

IdsOf(es) == {es[i].id : i \in Indices(es)}

CountOf(es, s) == Cardinality({i \in Indices(es) : es[i].status = s})

\* the step is a call of f that returned
Returned(op) == last'.op = op

----------------------------------------------------------------------------
(* The properties *)

\* C1: once a task is Done it is Done in every later state: no step takes a
\* task out of Done.
C1_DoneIsTerminal ==
    [][\A i \in Indices(entries) :
          entries[i].status = Done =>
              i \in Indices(entries') /\ entries'[i].status = Done]_vars

\* C2: add_task with an empty name has no effect: size and id cursor are
\* after the call what they were before it.
C2_EmptyNameRejected ==
    [][\A deadline \in {None, Some(0)}, now \in Times :
          add_task(<<>>, deadline, now) =>
              Len(entries') = Len(entries) /\ id_tracker' = id_tracker]_vars

NonEmptyNames(es) == \A i \in Indices(es) : es[i].task # <<>>

\* C3: as long as every add_task had a non-empty name, the k-th add
\* (k = 0, 1, ...) appends a task with id k in Todo status at the end of
\* entries, whatever closes and sweeps came between, and size is the number
\* of adds.
C3_AddAssignsIds ==
    /\ [](NonEmptyNames(entries) =>
            /\ id_tracker = Len(entries)
            /\ \A k \in Indices(entries) : entries[k].id = k - 1)
    /\ [][\A in \in TaskInputs, now \in Times :
            (NonEmptyNames(entries) /\ in[1] # <<>> /\ add_task(in[1], in[2], now)) =>
                entries' = Append(entries,
                    [id |-> Len(entries), task |-> in[1], status |-> Todo,
                     timestamp |-> now, deadline |-> in[2]])]_vars

\* two adds with non-empty names, a close between or after them
C3_Witness ==
    /\ last.op = "add_task"
    /\ Len(entries) = 2
    /\ NonEmptyNames(entries)
    /\ entries[1].status = Done
    /\ entries[2].status = Todo

\* C4: check_overdues turns exactly the Todo tasks whose deadline is before
\* the clock reading into Overdue and changes nothing else: Done and Overdue
\* tasks keep their status, and ids, names, deadlines, creation times, the
\* order and the cursor stay.
C4_SweepFrame ==
    [][\A nows \in [Indices(entries) -> Times] :
          check_overdues(nows) =>
              /\ id_tracker' = id_tracker
              /\ entries' =
                    [i \in Indices(entries) |->
                        IF /\ entries[i].status = Todo
                           /\ entries[i].deadline # None
                           /\ entries[i].deadline[1] < nows[i]
                        THEN [entries[i] EXCEPT !.status = Overdue]
                        ELSE entries[i]]]_vars

\* C5: close_task on the id of a task that is not Done returns Ok and the
\* task is Done; the same call right after it returns the error and changes
\* nothing, the task still Done.
C5_CloseThenCloseAgain ==
    [][Returned("close_task") =>
          LET id == last'.id
          IN  /\ (\E i \in Indices(entries) :
                      entries[i].id = id /\ entries[i].status # Done) =>
                    /\ last'.ok
                    /\ \A i \in Indices(entries) :
                          entries[i].id = id => entries'[i].status = Done
              /\ (last.op = "close_task" /\ last.ok /\ last.id = id) =>
                    /\ ~last'.ok
                    /\ entries' = entries
                    /\ id_tracker' = id_tracker
                    /\ \A i \in Indices(entries) :
                          entries[i].id = id => entries'[i].status = Done]_vars

\* a close that failed on a task that is there and Done
C5_Witness ==
    /\ last.op = "close_task"
    /\ ~last.ok
    /\ \E i \in Indices(entries) :
          entries[i].id = last.id /\ entries[i].status = Done

\* C6: close_task with an id no entry carries returns the error and leaves
\* entries and the cursor as they were.
C6_CloseAbsentId ==
    [][(Returned("close_task") /\ last'.id \notin IdsOf(entries)) =>
          /\ ~last'.ok
          /\ entries' = entries
          /\ id_tracker' = id_tracker]_vars

\* failed closes of a negative id and of an id at or past the cursor, on a
\* list that has open tasks
C6_Witness ==
    /\ last.op = "close_task"
    /\ ~last.ok
    /\ last.id \notin IdsOf(entries)
    /\ (last.id < 0 \/ last.id >= id_tracker)
    /\ \E i \in Indices(entries) : entries[i].status # Done

\* C7: a close command that fails with not-found does not end the session:
\* after it the loop still takes commands and the list is as it was.
C7_FailedCloseKeepsSession ==
    [][(pc = "loop" /\ Returned("close_task") /\ ~last'.ok) =>
          /\ pc' = "loop"
          /\ entries' = entries
          /\ id_tracker' = id_tracker]_vars

\* C8: the counts get_status returns sum to the size of the list.
C8_TallySumsToSize ==
    last.op = "get_status" =>
        /\ last.ok
        /\ last.counts[Todo] + last.counts[Done] + last.counts[Overdue]
              = get_size(entries)

\* C9: get_status returns, for each of the three statuses, the number of
\* entries in that status.
C9_TallyCountsEachStatus ==
    last.op = "get_status" =>
        /\ last.ok
        /\ DOMAIN last.counts = Statuses
        /\ \A s \in Statuses : last.counts[s] = CountOf(entries, s)

\* C10: the file export writes reads back as the list that was exported, and
\* a read_or_create right after the export yields that list: the same
\* entries in the same order and the same cursor.
C10_RoundTrip ==
    [][/\ Returned("export") =>
            /\ file'.exists
            /\ from_reader_ok(file'.text)
            /\ from_reader(file'.text) =
                  [entries |-> entries, id_tracker |-> id_tracker]
       /\ (Returned("read_or_create") /\ last.op = "export") =>
            /\ pc' = "loop"
            /\ entries' = entries
            /\ id_tracker' = id_tracker]_vars

\* a reload of a list of two tasks in different statuses, one with a deadline
C10_Witness ==
    /\ last.op = "read_or_create"
    /\ file.exists
    /\ Len(entries) = 2
    /\ entries[1].status = Overdue
    /\ entries[2].status = Done
    /\ entries[2].deadline = None
    /\ id_tracker = 2

----------------------------------------------------------------------------
(* read_or_create *)

\* the content File::open and serde_json::from_reader both accept
Loadable(f) == f.exists /\ f.readable /\ from_reader_ok(f.text)

\* the call returned a list with no entries and the cursor at 0
ReturnsEmptyList == pc' = "loop" /\ entries' = <<>> /\ id_tracker' = 0

\* C11 as stated: read_or_create returns the empty list with the cursor at 0
\* exactly when the file does not exist, and it panics, returning no list,
\* when the file exists and cannot be opened or parsed.
C11_EmptyIffAbsent ==
    [][Returned("read_or_create") =>
          /\ ReturnsEmptyList <=> ~file.exists
          /\ (file.exists /\ ~Loadable(file)) => pc' = "panicked"]_vars

\* C11 amended: read_or_create returns the empty list with the cursor at 0
\* when the file does not exist; when the file exists and holds a saved list
\* it returns that list, which is the empty list when an empty list was
\* saved; when the file exists and cannot be opened or parsed it panics and
\* returns no list.
C11_Load ==
    [][Returned("read_or_create") =>
          /\ ~file.exists => ReturnsEmptyList
          /\ Loadable(file) =>
                /\ pc' = "loop"
                /\ to_string(entries', id_tracker') = file.text
          /\ (file.exists /\ ~Loadable(file)) =>
                /\ pc' = "panicked"
                /\ ~last'.ok]_vars

\* read_or_create has panicked on a file that is not the JSON of a List
C11_Witness ==
    /\ last.op = "read_or_create"
    /\ ~last.ok
    /\ pc = "panicked"
    /\ file = CorruptFile

----------------------------------------------------------------------------
(* close_task on an overdue task *)

\* C12: close_task with the id of an entry whose status is Overdue returns
\* Ok and that entry's status is Done afterwards.
C12_CloseOverdue ==
    [][\A i \in Indices(entries) :
          (/\ Returned("close_task")
           /\ entries[i].id = last'.id
           /\ entries[i].status = Overdue) =>
              /\ last'.ok
              /\ entries'[i].status = Done]_vars

\* close_task has returned Ok on an entry that was Overdue, now Done
C12_Witness ==
    /\ last.op = "close_task"
    /\ last.ok
    /\ last.on = Some(Overdue)
    /\ \E i \in Indices(entries) :
          entries[i].id = last.id /\ entries[i].status = Done

----------------------------------------------------------------------------
(* check_overdues and is_overdue *)

\* C13: check_overdues run again with the same clock readings leaves the
\* list as the first run left it.
C13_SweepIdempotent ==
    [][Returned("check_overdues") =>
          /\ id_tracker' = id_tracker
          /\ \A nows \in [Indices(entries) -> Times] :
                entries' = sweep(entries, nows) =>
                    sweep(entries', nows) = entries']_vars

\* check_overdues has run on a list where it made one entry Overdue and
\* left another with a deadline at Todo
C13_Witness ==
    /\ last.op = "check_overdues"
    /\ \E i, j \in Indices(entries) :
          /\ entries[i].status = Overdue
          /\ entries[j].status = Todo
          /\ entries[j].deadline # None

\* C14: an entry with no deadline is not Overdue, in any reachable state.
C14_NoDeadlineNeverOverdue ==
    \A i \in Indices(entries) :
        entries[i].deadline = None => entries[i].status # Overdue

\* check_overdues has run on a list with an entry without deadline, which
\* is Todo, and an entry it made Overdue
C14_Witness ==
    /\ last.op = "check_overdues"
    /\ \E i, j \in Indices(entries) :
          /\ entries[i].deadline = None
          /\ entries[i].status = Todo
          /\ entries[j].status = Overdue

\* C15: is_overdue returns true exactly when the entry has a deadline and
\* the deadline is before the clock reading, whatever the entry's status,
\* and the call leaves the entry as it was.
C15_IsOverdue ==
    [][Returned("is_overdue") =>
          \A i \in Indices(entries) :
              entries[i].id = last'.id =>
                  /\ last'.ret = Some(/\ entries[i].deadline # None
                                      /\ entries[i].deadline[1] < last'.on[1])
                  /\ entries' = entries]_vars

\* is_overdue has returned true on a Done entry whose deadline is before
\* the clock reading
C15_Witness ==
    /\ last.op = "is_overdue"
    /\ last.ret = Some(TRUE)
    /\ entries[1].status = Done
    /\ entries[1].deadline # None
    /\ entries[1].deadline[1] < last.on[1]

----------------------------------------------------------------------------
(* parse_deadline *)

\* C16: parse_deadline returns midnight of the date for a text year-month-day
\* with an integer year, a month and a day of the calendar and at most one
\* line feed after it, and None for every other text.
C16_ParseDeadline ==
    last.op = "parse_deadline" => last.ret = Some(DateOf(last.on[1]))

----------------------------------------------------------------------------
(* The ids and the cursor *)

\* C17: in every reachable state no two entries have the same id and every
\* entry's id is below the cursor, also after export and read_or_create.
C17_UniqueIds ==
    /\ \A i, j \in Indices(entries) : i # j => entries[i].id # entries[j].id
    /\ \A i \in Indices(entries) : entries[i].id < id_tracker

\* a task has been added to a list of one entry that was saved and loaded
C17_Witness ==
    /\ last.op = "add_task"
    /\ Len(entries) = 2
    /\ Loadable(file)
    /\ Len(from_reader(file.text).entries) = 1

\* C18: the cursor starts at 0 and never decreases; a step changes it only
\* when it is an add_task, which raises it by 1 and adds one entry;
\* close_task, check_overdues and get_status leave the cursor and the number
\* of entries as they were.
C18_CursorSteps ==
    /\ id_tracker = 0
    /\ [][/\ id_tracker' >= id_tracker
          /\ id_tracker' # id_tracker => Returned("add_task")
          /\ Returned("add_task") =>
                /\ id_tracker' = id_tracker + 1
                /\ Len(entries') = Len(entries) + 1
          /\ last'.op \in {"close_task", "check_overdues", "get_status"} =>
                /\ id_tracker' = id_tracker
                /\ Len(entries') = Len(entries)]_vars

\* the second add_task has raised the cursor to 2, after a close that
\* returned Ok
C18_Witness ==
    /\ last.op = "add_task"
    /\ id_tracker = 2
    /\ Len(entries) = 2
    /\ entries[1].status = Done

----------------------------------------------------------------------------
(* The status of a task over time *)

\* C19: an entry that is Overdue or Done is not Todo after any step, and an
\* entry that is Overdue stays Overdue unless the step is a close_task that
\* makes it Done.
C19_NeverBackToTodo ==
    [][/\ Len(entries') >= Len(entries)
       /\ \A i \in Indices(entries) :
             /\ entries[i].status \in {Overdue, Done} =>
                   entries'[i].status # Todo
             /\ (entries[i].status = Overdue /\ entries'[i].status # Overdue) =>
                   /\ entries'[i].status = Done
                   /\ Returned("close_task")
                   /\ last'.ok]_vars

\* check_overdues has run on a list with an Overdue entry and a Done entry
C19_Witness ==
    /\ last.op = "check_overdues"
    /\ \E i, j \in Indices(entries) :
          /\ entries[i].status = Overdue
          /\ entries[j].status = Done

\* C20: a close_task that returns Ok sets the status of the first entry that
\* has the id and is not Done to Done, and changes nothing else: not the
\* other entries, their order, any id, name, timestamp or deadline, nor the
\* cursor.
C20_CloseFrame ==
    [][(Returned("close_task") /\ last'.ok) =>
          LET hits == {i \in Indices(entries) :
                          entries[i].id = last'.id /\ entries[i].status # Done}
          IN  /\ hits # {}
              /\ \E k \in hits :
                    /\ \A j \in hits : k <= j
                    /\ Len(entries') = Len(entries)
                    /\ \A i \in Indices(entries) :
                          entries'[i] = IF i = k
                                        THEN [entries[i] EXCEPT !.status = Done]
                                        ELSE entries[i]
              /\ id_tracker' = id_tracker]_vars

\* close_task has closed the second of two entries and left the first open
C20_Witness ==
    /\ last.op = "close_task"
    /\ last.ok
    /\ Len(entries) = 2
    /\ entries[2].id = last.id
    /\ entries[2].status = Done
    /\ entries[1].status # Done

====
